---- MODULE Spec2Model ----
(***************************************************************************)
(* Model of CADMarking.py: the submission grading pipeline.                *)
(*                                                                         *)
(*   extract_expected_values -> process_submissions -> save_results_to_csv *)
(*                                                                         *)
(* The CAD export (Solid Edge, export_to_step) and the geometry kernel     *)
(* (OpenCASCADE, calculate_properties) are the environment: every call     *)
(* either fails or succeeds, chosen nondeterministically.                  *)
(*                                                                         *)
(* Python values are modelled as follows.                                  *)
(*   None / a value x      the sequences << >> and <<x>>                   *)
(*   a float               an exact rational; the measured quantities are  *)
(*                         integers, a percentage or a mark divided by 3   *)
(*                         is a record [num, den]                          *)
(*   a file name           a record [name, ext]  ("S1.par" = S1 + par)     *)
(*   a raised exception    a record [exc, val] with exc # NoExc            *)
(***************************************************************************)
EXTENDS Integers, Sequences, FiniteSets, TLC

----------------------------------------------------------------------------
(* Bounds of the model *)

\* largest absolute value of a measured or expected quantity (mark function)
MaxValue == 205

\* largest number of entries of the submissions folder
MaxFiles == 3

----------------------------------------------------------------------------
(* Python's None and optional values *)

None == << >>

Some(x) == <<x>>

Val(o) == o[1]

Abs(x) == IF x < 0 THEN -x ELSE x

(* Outcome of a call: a returned value or a raised exception *)
NoExc == "no exception"

Returns(v) == [exc |-> NoExc, val |-> v]

Raises(e) == [exc |-> e, val |-> 0]

----------------------------------------------------------------------------
(* calculate_mark *)

\* abs(value - expected_value) / expected_value * 100: the denominator
\* keeps its sign
percentage_SignedDenominator(value, expected_value) ==
    [num |-> Abs(value - expected_value) * 100, den |-> expected_value]

\* abs((value - expected_value) / expected_value) * 100, as an exact fraction
percentage(value, expected_value) ==
    [num |-> Abs(value - expected_value) * 100, den |-> Abs(expected_value)]

\* percentage <= k, for a fraction with a positive denominator
PctLeq(p, k) == p.num <= k * p.den

\* BucketChain with exclusive upper bounds (< in place of <=)
BucketChainExclusive(p) ==
    IF ~PctLeq(p, 1) THEN
        IF ~PctLeq(p, 20) THEN
            IF ~PctLeq(p, 40) THEN
                IF ~PctLeq(p, 60) THEN
                    IF ~PctLeq(p, 80) THEN 0
                    ELSE IF p.num = 80 * p.den THEN 0 ELSE 1
                ELSE IF p.num = 60 * p.den THEN 1 ELSE 2
            ELSE IF p.num = 40 * p.den THEN 2 ELSE 3
        ELSE IF p.num = 20 * p.den THEN 3 ELSE 4
    ELSE IF p.num = p.den THEN 4 ELSE 5

\* BucketChain with the marks of the second and third branch exchanged
BucketChainSwapped(p) ==
    IF PctLeq(p, 1) THEN 5
    ELSE IF PctLeq(p, 20) THEN 3
    ELSE IF PctLeq(p, 40) THEN 4
    ELSE IF PctLeq(p, 60) THEN 2
    ELSE IF PctLeq(p, 80) THEN 1
    ELSE 0

\* the if / elif chain of calculate_mark
BucketChain(p) ==
    IF PctLeq(p, 1) THEN 5
    ELSE IF PctLeq(p, 20) THEN 4
    ELSE IF PctLeq(p, 40) THEN 3
    ELSE IF PctLeq(p, 60) THEN 2
    ELSE IF PctLeq(p, 80) THEN 1
    ELSE 0

\* the statements of calculate_mark after its guard: the subtraction raises
\* TypeError on None and the division raises ZeroDivisionError on 0
MarkBody(value, expected_value) ==
    IF value = None \/ expected_value = None THEN Raises("TypeError")
    ELSE IF Val(expected_value) = 0 THEN Raises("ZeroDivisionError")
    ELSE Returns(BucketChain(percentage(Val(value), Val(expected_value))))

\* calculate_mark without the expected_value == 0 test of its guard
calculate_mark_NoZeroGuard(value, expected_value) ==
    IF value = None \/ expected_value = None
    THEN Returns(0)
    ELSE MarkBody(value, expected_value)

calculate_mark(value, expected_value) ==
    IF value = None \/ expected_value = None \/ expected_value = Some(0)
    THEN Returns(0)
    ELSE MarkBody(value, expected_value)

----------------------------------------------------------------------------
(* Files, the export service and the geometry kernel *)

File(n, e) == [name |-> n, ext |-> e]

\* the reference solution handed to extract_expected_values
solution_file_path == File("solution", "par")

\* what the submissions folder may hold: .par submissions and another file
FolderFiles ==
    {File("S1", "par"), File("S2", "par"), File("S3", "par"), File("notes", "txt")}

\* file_name.endswith('.par')
IsPar(f) == f.ext = "par"

\* export_to_step: name, _ = splitext(basename(path)); f"{name}.step"
StepPathOf(par_file_path) == File(par_file_path.name, "step")

\* an artifact Solid Edge may leave in the output directory on an export
ExportLog == File("export", "log")

\* what the geometry kernel may compute for a solid
KernelOutputs ==
    { [volume |-> 100, surface_area |-> 60, cg |-> <<10, -10, 4>>],
      [volume |-> 121, surface_area |-> 90, cg |-> <<10, -14, 0>>] }

\* the (None, None, None) of calculate_properties and extract_expected_values
NoProperties == [volume |-> None, surface_area |-> None, cg |-> None]

\* a returned (volume, surface_area, (cg_x, cg_y, cg_z))
Properties(k) ==
    [volume |-> Some(k.volume), surface_area |-> Some(k.surface_area), cg |-> Some(k.cg)]

\* retry_count in process_submissions
retry_count == 3

\* range(retry_count) running one iteration too many
RetryLoopContinues_OffByOne(n) == n <= retry_count

\* for _ in range(retry_count): after n iterations another one follows
RetryLoopContinues(n) == n < retry_count

\* all sequences over S without repetition, of length at most n
RECURSIVE InjectiveSeqs(_, _)
InjectiveSeqs(S, n) ==
    IF n = 0 THEN {<< >>}
    ELSE LET shorter == InjectiveSeqs(S, n - 1)
             longest == {q \in shorter : Len(q) = n - 1}
             fresh == {x \in longest \X S : \A i \in 1..Len(x[1]) : x[1][i] # x[2]}
         IN  shorter \cup {Append(x[1], x[2]) : x \in fresh}

\* os.listdir(submissions_folder): the entries in an arbitrary order
Listings == InjectiveSeqs(FolderFiles, MaxFiles)

----------------------------------------------------------------------------
(* State *)

VARIABLES
    pc,                 \* position of the program
    listing,            \* os.listdir(submissions_folder)
    outdir,             \* the files of output_dir
    expected,           \* (expected_volume, expected_surface_area, expected_cg)
    idx,                \* position of the for file_name loop in listing
    attempt,            \* iterations of the retry loop made for this file
    step_file_path,     \* step_file_path of process_submissions
    results,            \* results
    submission_count,   \* submission_count
    total_submissions,  \* total_submissions
    progress,           \* the "Processed i/n submissions." lines printed
    csv_file,           \* the rows written by save_results_to_csv
    export_log,         \* history: per source file, the outcome of each export
    read_log,           \* history: the calls of calculate_properties, with outcome
    clean_up_calls,     \* history: number of calls of clean_up_files
    value,              \* argument of a direct call of calculate_mark
    expected_value,     \* argument of a direct call of calculate_mark
    mark                \* outcome of the direct call of calculate_mark

batchVars ==
    <<pc, listing, outdir, expected, idx, attempt, step_file_path, results,
      submission_count, total_submissions, progress, csv_file, export_log,
      read_log, clean_up_calls>>

markVars == <<value, expected_value, mark>>

vars == <<batchVars, markVars>>

\* the source files export_to_step may be called on
SourceFiles == {f \in FolderFiles : IsPar(f)} \cup {solution_file_path}

\* the .par entries of a listing, in listing order
RECURSIVE ParFiles(_)
ParFiles(l) ==
    IF l = << >> THEN << >>
    ELSE IF IsPar(Head(l)) THEN <<Head(l)>> \o ParFiles(Tail(l))
    ELSE ParFiles(Tail(l))

InitBatch ==
    /\ pc = "extract_expected_values"
    /\ listing \in Listings
    /\ outdir = {}
    /\ expected = NoProperties
    /\ idx = 0
    /\ attempt = 0
    /\ step_file_path = None
    /\ results = << >>
    /\ submission_count = 0
    /\ total_submissions = 0
    /\ progress = << >>
    /\ csv_file = None
    /\ export_log = [f \in SourceFiles |-> << >>]
    /\ read_log = << >>
    /\ clean_up_calls = 0

InitMarkIdle ==
    /\ value = None
    /\ expected_value = None
    /\ mark = None

Init == InitBatch /\ InitMarkIdle

----------------------------------------------------------------------------
(* export_to_step and clean_up_files on the output directory *)

\* export_to_step: on success the STEP file is (over)written; the export may
\* leave a log in the output directory whether or not it succeeds
ExportedDir(dir, par_file_path, ok, leaves_log) ==
    (IF ok THEN dir \cup {StepPathOf(par_file_path)} ELSE dir)
        \cup (IF leaves_log THEN {ExportLog} ELSE {})

\* export_to_step returning the path it computed although the export failed
ExportReturn_AlwaysPath(par_file_path, ok) == Some(StepPathOf(par_file_path))

\* export_to_step: return step_file_path (line 36) or return None (line 40)
ExportReturn(par_file_path, ok) ==
    IF ok THEN Some(StepPathOf(par_file_path)) ELSE None

\* the STEP file left in place
RemovedFrom_Kept(dir, path) == dir

\* if os.path.isfile(step_file_path): os.remove(step_file_path)
RemovedFrom(dir, path) == dir \ {path}

\* clean_up_files: every .txt or .log file of the directory is removed
clean_up_files(dir) == {f \in dir : f.ext # "txt" /\ f.ext # "log"}

----------------------------------------------------------------------------
(* extract_expected_values *)

\* line 111: export of the reference solution; a failed export returns
\* (None, None, None) at line 118
ExtractExport ==
    /\ pc = "extract_expected_values"
    /\ \E ok \in BOOLEAN, leaves_log \in BOOLEAN :
        /\ export_log' = [export_log EXCEPT ![solution_file_path] = Append(@, ok)]
        /\ outdir' = ExportedDir(outdir, solution_file_path, ok, leaves_log)
        /\ step_file_path' = ExportReturn(solution_file_path, ok)
        /\ \/ /\ step_file_path' # None
              /\ pc' = "extract_read"
           \/ /\ step_file_path' = None
              /\ pc' = "process_submissions"
    /\ UNCHANGED <<listing, expected, idx, attempt, results, submission_count,
                   total_submissions, progress, csv_file, read_log, clean_up_calls>>
    /\ UNCHANGED markVars

\* lines 113-117: read, remove the STEP file, clean up, return
ExtractRead ==
    /\ pc = "extract_read"
    /\ \E props \in {NoProperties} \cup {Properties(k) : k \in KernelOutputs} :
        expected' = props
    /\ read_log' = Append(read_log, [path |-> Val(step_file_path),
                                      ok |-> expected' # NoProperties])
    /\ outdir' = clean_up_files(RemovedFrom(outdir, Val(step_file_path)))
    /\ clean_up_calls' = clean_up_calls + 1
    /\ step_file_path' = None
    /\ pc' = "process_submissions"
    /\ UNCHANGED <<listing, idx, attempt, results, submission_count,
                   total_submissions, progress, csv_file, export_log>>
    /\ UNCHANGED markVars

----------------------------------------------------------------------------
(* Marking one submission: lines 173-179 *)

\* m / k as an exact fraction
DivBy(m, k) == [num |-> m, den |-> k]

FracAdd(a, b) == [num |-> a.num * b.den + b.num * a.den, den |-> a.den * b.den]

\* the subscript taken one position too far: the last one is out of range
Subscript_OffByOne(o, i) ==
    IF o = None THEN Raises("TypeError")
    ELSE IF i + 1 > Len(Val(o)) THEN Raises("IndexError")
    ELSE Returns(Val(o)[i + 1])

\* o[i] in Python: subscripting None raises TypeError
Subscript(o, i) == IF o = None THEN Raises("TypeError") ELSE Returns(Val(o)[i])

\* the first exception of a sequence of outcomes, or NoExc
RECURSIVE FirstExc(_)
FirstExc(outcomes) ==
    IF outcomes = << >> THEN NoExc
    ELSE IF Head(outcomes).exc # NoExc THEN Head(outcomes).exc
    ELSE FirstExc(Tail(outcomes))

\* AxisMark without the division by 3
AxisMark_NoDivision(cg, expected_cg, i) ==
    LET c == Subscript(cg, i)
        e == Subscript(expected_cg, i)
        m == IF c.exc # NoExc THEN c
             ELSE IF e.exc # NoExc THEN e
             ELSE calculate_mark(Some(c.val), Some(e.val))
    IN  IF m.exc # NoExc THEN m ELSE Returns(DivBy(m.val, 1))

\* calculate_mark(cg[i], expected_cg[i]) / 3
AxisMark(cg, expected_cg, i) ==
    LET c == Subscript(cg, i)
        e == Subscript(expected_cg, i)
        m == IF c.exc # NoExc THEN c
             ELSE IF e.exc # NoExc THEN e
             ELSE calculate_mark(Some(c.val), Some(e.val))
    IN  IF m.exc # NoExc THEN m ELSE Returns(DivBy(m.val, 3))

\* lines 173-179: the three marks of a submission, or the exception raised
Marks(props, exp) ==
    LET volume_mark == calculate_mark(props.volume, exp.volume)
        surface_area_mark == calculate_mark(props.surface_area, exp.surface_area)
        cg_x_mark == AxisMark(props.cg, exp.cg, 1)
        cg_y_mark == AxisMark(props.cg, exp.cg, 2)
        cg_z_mark == AxisMark(props.cg, exp.cg, 3)
        raised == FirstExc(<<volume_mark, surface_area_mark,
                             cg_x_mark, cg_y_mark, cg_z_mark>>)
    IN  IF raised # NoExc THEN Raises(raised)
        ELSE Returns([VolumeMark |-> volume_mark.val,
                      SurfaceAreaMark |-> surface_area_mark.val,
                      CGMark |-> FracAdd(FracAdd(cg_x_mark.val, cg_y_mark.val),
                                         cg_z_mark.val)])

\* results = [row] in place of results.append(row)
AppendResult_Overwrite(rs, row) == <<row>>

\* results.insert(0, row) in place of results.append(row)
AppendResult_Front(rs, row) == <<row>> \o rs

\* results.append(row)
AppendResult(rs, row) == Append(rs, row)

\* the progress line printed before the counter is incremented
ProgressLine_Stale(count, total) == <<count - 1, total>>

\* line 196: "Processed {submission_count}/{total_submissions} submissions."
ProgressLine(count, total) == <<count, total>>

\* submission_count = 1 in place of submission_count += 1
Incremented_Reset(count) == 1

\* line 195: submission_count += 1
Incremented(count) == count + 1

\* lines 181-189: the dictionary appended to results
ResultRow(file_name, props, marks) ==
    [StudentID |-> file_name.name,
     Volume |-> Val(props.volume),
     SurfaceArea |-> Val(props.surface_area),
     CenterOfGravity |-> Val(props.cg),
     VolumeMark |-> marks.VolumeMark,
     SurfaceAreaMark |-> marks.SurfaceAreaMark,
     CGMark |-> marks.CGMark]

----------------------------------------------------------------------------
(* process_submissions *)

\* lines 145-147
StartBatch ==
    /\ pc = "process_submissions"
    /\ results' = << >>
    /\ submission_count' = 0
    /\ total_submissions' = Len(ParFiles(listing))
    /\ idx' = 1
    /\ pc' = "for_file_name"
    /\ UNCHANGED <<listing, outdir, expected, attempt, step_file_path, progress,
                   csv_file, export_log, read_log, clean_up_calls>>
    /\ UNCHANGED markVars

\* lines 149-150: an entry that is no .par file is passed over
SkipOtherFile ==
    /\ pc = "for_file_name"
    /\ idx <= Len(listing)
    /\ ~IsPar(listing[idx])
    /\ idx' = idx + 1
    /\ UNCHANGED <<pc, listing, outdir, expected, attempt, step_file_path, results,
                   submission_count, total_submissions, progress, csv_file,
                   export_log, read_log, clean_up_calls>>
    /\ UNCHANGED markVars

\* lines 150-155: the next .par file enters the retry loop
BeginSubmission ==
    /\ pc = "for_file_name"
    /\ idx <= Len(listing)
    /\ IsPar(listing[idx])
    /\ attempt' = 0
    /\ step_file_path' = None
    /\ pc' = "export_to_step"
    /\ UNCHANGED <<listing, outdir, expected, idx, results, submission_count,
                   total_submissions, progress, csv_file, export_log, read_log,
                   clean_up_calls>>
    /\ UNCHANGED markVars

\* lines 156-163: one iteration of the retry loop; a success breaks out of
\* it, the last failure prints the diagnostic and continues with the next file
ExportAttempt ==
    /\ pc = "export_to_step"
    /\ RetryLoopContinues(attempt)
    /\ \E ok \in BOOLEAN, leaves_log \in BOOLEAN :
        /\ export_log' = [export_log EXCEPT ![listing[idx]] = Append(@, ok)]
        /\ outdir' = ExportedDir(outdir, listing[idx], ok, leaves_log)
        /\ attempt' = attempt + 1
        /\ step_file_path' = ExportReturn(listing[idx], ok)
        /\ \/ /\ step_file_path' # None
              /\ pc' = "calculate_properties"
              /\ idx' = idx
           \/ /\ step_file_path' = None
              /\ RetryLoopContinues(attempt + 1)
              /\ pc' = "export_to_step"
              /\ idx' = idx
           \/ /\ step_file_path' = None
              /\ ~RetryLoopContinues(attempt + 1)
              /\ pc' = "for_file_name"
              /\ idx' = idx + 1
    /\ UNCHANGED <<listing, expected, results, submission_count, total_submissions,
                   progress, csv_file, read_log, clean_up_calls>>
    /\ UNCHANGED markVars

\* ReadFails with the read inside the retry loop: a failed read goes back to
\* the export while attempts remain
ReadFails_Retries ==
    /\ pc = "calculate_properties"
    /\ read_log' = Append(read_log, [path |-> Val(step_file_path), ok |-> FALSE])
    /\ IF RetryLoopContinues(attempt)
       THEN pc' = "export_to_step" /\ idx' = idx
       ELSE pc' = "for_file_name" /\ idx' = idx + 1
    /\ UNCHANGED <<listing, outdir, expected, attempt, step_file_path, results,
                   submission_count, total_submissions, progress, csv_file,
                   export_log, clean_up_calls>>
    /\ UNCHANGED markVars

\* lines 166-170: the kernel fails; the submission is skipped
ReadFails ==
    /\ pc = "calculate_properties"
    /\ read_log' = Append(read_log, [path |-> Val(step_file_path), ok |-> FALSE])
    /\ pc' = "for_file_name"
    /\ idx' = idx + 1
    /\ UNCHANGED <<listing, outdir, expected, attempt, step_file_path, results,
                   submission_count, total_submissions, progress, csv_file,
                   export_log, clean_up_calls>>
    /\ UNCHANGED markVars

\* lines 166-196: the kernel returns properties; the submission is marked,
\* recorded, its STEP file removed and the progress line printed, unless the
\* marking raises, which ends the program
ReadAndMark ==
    /\ pc = "calculate_properties"
    /\ read_log' = Append(read_log, [path |-> Val(step_file_path), ok |-> TRUE])
    /\ \E k \in KernelOutputs :
        LET props == Properties(k)
            marks == Marks(props, expected)
        IN  \/ /\ marks.exc = NoExc
               /\ results' = AppendResult(results,
                                        ResultRow(listing[idx], props, marks.val))
               /\ outdir' = RemovedFrom(outdir, Val(step_file_path))
               /\ submission_count' = Incremented(submission_count)
               /\ progress' = Append(progress,
                                     ProgressLine(submission_count', total_submissions))
               /\ pc' = "for_file_name"
               /\ idx' = idx + 1
            \/ /\ marks.exc # NoExc
               /\ pc' = "raised"
               /\ UNCHANGED <<results, outdir, submission_count, progress, idx>>
    /\ UNCHANGED <<listing, expected, attempt, step_file_path, total_submissions,
                   csv_file, export_log, clean_up_calls>>
    /\ UNCHANGED markVars

\* lines 198-199: the listing is exhausted
FinishBatch ==
    /\ pc = "for_file_name"
    /\ idx > Len(listing)
    /\ outdir' = clean_up_files(outdir)
    /\ clean_up_calls' = clean_up_calls + 1
    /\ pc' = "save_results_to_csv"
    /\ UNCHANGED <<listing, expected, idx, attempt, step_file_path, results,
                   submission_count, total_submissions, progress, csv_file,
                   export_log, read_log>>
    /\ UNCHANGED markVars

----------------------------------------------------------------------------
(* save_results_to_csv *)

fieldnames ==
    <<"StudentID", "Volume", "SurfaceArea", "CenterOfGravity", "VolumeMark",
      "SurfaceAreaMark", "CGMark">>

RECURSIVE Pow10(_)
Pow10(n) == IF n = 0 THEN 1 ELSE 10 * Pow10(n - 1)

\* f"{x:.<places>f}" of the fraction x: sign, digits before and after the point
FormatFixed(x, places) ==
    LET scaled == (2 * Abs(x.num) * Pow10(places) + x.den) \div (2 * x.den)
    IN  [negative |-> x.num < 0,
         whole |-> scaled \div Pow10(places),
         decimals |-> scaled % Pow10(places),
         places |-> places]

\* lines 213-225: the row written for one result
CsvRow(result) ==
    <<result.StudentID,
      FormatFixed(DivBy(result.Volume, 1), 3),
      FormatFixed(DivBy(result.SurfaceArea, 1), 3),
      <<FormatFixed(DivBy(result.CenterOfGravity[1], 1), 3),
        FormatFixed(DivBy(result.CenterOfGravity[2], 1), 3),
        FormatFixed(DivBy(result.CenterOfGravity[3], 1), 3)>>,
      FormatFixed(DivBy(result.VolumeMark, 1), 2),
      FormatFixed(DivBy(result.SurfaceAreaMark, 1), 2),
      FormatFixed(result.CGMark, 2)>>

\* lines 211-225: the header, then one row per result
CsvLines(rs) == <<fieldnames>> \o [i \in 1..Len(rs) |-> CsvRow(rs[i])]

save_results_to_csv ==
    /\ pc = "save_results_to_csv"
    /\ csv_file' = Some(CsvLines(results))
    /\ pc' = "done"
    /\ UNCHANGED <<listing, outdir, expected, idx, attempt, step_file_path, results,
                   submission_count, total_submissions, progress, export_log,
                   read_log, clean_up_calls>>
    /\ UNCHANGED markVars

----------------------------------------------------------------------------
(* The program: lines 234-236 *)

Next ==
    \/ ExtractExport
    \/ ExtractRead
    \/ StartBatch
    \/ SkipOtherFile
    \/ BeginSubmission
    \/ ExportAttempt
    \/ ReadFails
    \/ ReadAndMark
    \/ FinishBatch
    \/ save_results_to_csv

Spec == Init /\ [][Next]_vars

\* the program is sequential and synchronous: every call returns or fails,
\* so a step that can be taken is taken
SpecLive == Init /\ [][Next]_vars /\ WF_vars(Next)

----------------------------------------------------------------------------
(* calculate_mark called on its own *)

\* the measured values tried: None and every integer up to MaxValue
MeasuredValues == {None} \cup {Some(v) : v \in -MaxValue..MaxValue}

\* the expected values tried: None, zero, and both signs
ExpectedValues == {None} \cup {Some(e) : e \in {-100, -20, -3, 0, 3, 20, 100}}

InitBatchIdle ==
    /\ pc = "calculate_mark"
    /\ listing = << >>
    /\ outdir = {}
    /\ expected = NoProperties
    /\ idx = 0
    /\ attempt = 0
    /\ step_file_path = None
    /\ results = << >>
    /\ submission_count = 0
    /\ total_submissions = 0
    /\ progress = << >>
    /\ csv_file = None
    /\ export_log = [f \in SourceFiles |-> << >>]
    /\ read_log = << >>
    /\ clean_up_calls = 0

InitMark ==
    /\ InitBatchIdle
    /\ value \in MeasuredValues
    /\ expected_value \in ExpectedValues
    /\ mark = None

CallCalculateMark ==
    /\ pc = "calculate_mark"
    /\ mark' = Some(calculate_mark(value, expected_value))
    /\ pc' = "returned"
    /\ UNCHANGED <<value, expected_value>>
    /\ UNCHANGED <<listing, outdir, expected, idx, attempt, step_file_path, results,
                   submission_count, total_submissions, progress, csv_file,
                   export_log, read_log, clean_up_calls>>

NextMark == CallCalculateMark

SpecMark == InitMark /\ [][NextMark]_vars

----------------------------------------------------------------------------
(* Properties of calculate_mark, checked under SpecMark *)

\* the direct call has returned or raised
MarkCalled == pc = "returned"

\* both arguments are numbers and the expected value is not zero
MarkInputsDefined ==
    value # None /\ expected_value # None /\ expected_value # Some(0)

\* the bucket table of the specification: inclusive upper bound, mark
BucketTable == <<<<1, 5>>, <<20, 4>>, <<40, 3>>, <<60, 2>>, <<80, 1>>>>

\* the mark of the first row of the table whose bound the percentage error p
\* does not exceed under the comparison Leq, 0 when there is none
TableMark(Leq(_, _), p) ==
    LET hits == {i \in 1..Len(BucketTable) : Leq(p, BucketTable[i][1])}
    IN  IF hits = {} THEN 0
        ELSE BucketTable[CHOOSE i \in hits : \A j \in hits : i <= j][2]

\* |measured - expected| / expected * 100: the denominator keeps its sign
SignedPercentageError(measured, expctd) ==
    [num |-> Abs(measured - expctd) * 100, den |-> expctd]

\* |measured - expected| / |expected| * 100
AbsPercentageError(measured, expctd) ==
    [num |-> Abs(measured - expctd) * 100, den |-> Abs(expctd)]

\* p <= k for a fraction whose denominator may be negative
SignedLeq(p, k) == IF p.den > 0 THEN p.num <= k * p.den ELSE p.num >= k * p.den

\* p <= q for two fractions with positive denominators
FracLeq(p, q) == p.num * q.den <= q.num * p.den

\* C5 as stated: for non-null measured and expected with expected # 0,
\* calculate_mark is the bucket-table value of
\* |measured - expected| / expected * 100
C5_AsStated ==
    (MarkCalled /\ MarkInputsDefined) =>
        Val(mark) = Returns(TableMark(SignedLeq,
                        SignedPercentageError(Val(value), Val(expected_value))))

\* C5 amended: for non-null measured and expected with expected # 0,
\* calculate_mark is the bucket-table value (inclusive upper bounds 1, 20,
\* 40, 60, 80 giving 5, 4, 3, 2, 1, else 0) of
\* |measured - expected| / |expected| * 100; 100 vs 100 gives 5, 121 vs 100
\* gives 3 and 200 vs 100 gives 0
C5_BucketTable ==
    (MarkCalled /\ MarkInputsDefined) =>
        /\ Val(mark) = Returns(TableMark(SignedLeq,
                           AbsPercentageError(Val(value), Val(expected_value))))
        /\ (expected_value = Some(100) /\ value = Some(100)) => Val(mark).val = 5
        /\ (expected_value = Some(100) /\ value = Some(121)) => Val(mark).val = 3
        /\ (expected_value = Some(100) /\ value = Some(200)) => Val(mark).val = 0

\* a call with a negative expected value that does not score 5
C5_Witness ==
    /\ MarkCalled
    /\ value = Some(-121)
    /\ expected_value = Some(-100)
    /\ Val(mark) = Returns(3)

\* C6: calculate_mark returns 0, and raises nothing, whenever measured is
\* None, expected is None or expected is 0, whatever the other argument
C6_NullOrZeroGivesZero ==
    (MarkCalled /\ ~MarkInputsDefined) => Val(mark) = Returns(0)

\* a call with a measured number and expected 0 that returned 0
C6_Witness ==
    /\ MarkCalled
    /\ value = Some(100)
    /\ expected_value = Some(0)
    /\ Val(mark) = Returns(0)

\* the inputs of calculate_mark with numbers and a nonzero expected value
DefinedInputs ==
    {x \in (MeasuredValues \ {None}) \X (ExpectedValues \ {None, Some(0)}) : TRUE}

\* C9: for expected # 0 the mark is one of 0..5 and is non-increasing in the
\* percentage error: an input with a percentage error at least as large
\* never gets a larger mark
C9_MarkMonotone ==
    (MarkCalled /\ MarkInputsDefined) =>
        /\ Val(mark).exc = NoExc
        /\ Val(mark).val \in 0..5
        /\ \A x \in DefinedInputs :
              FracLeq(percentage(Val(value), Val(expected_value)),
                      percentage(Val(x[1]), Val(x[2])))
                  => calculate_mark(x[1], x[2]).val <= Val(mark).val

\* a call that returned a middle mark: inputs with larger and with smaller
\* percentage errors exist
C9_Witness ==
    /\ MarkCalled
    /\ MarkInputsDefined
    /\ Val(mark) = Returns(2)
    /\ \E x \in DefinedInputs : calculate_mark(x[1], x[2]).val = 0
    /\ \E x \in DefinedInputs : calculate_mark(x[1], x[2]).val = 5

----------------------------------------------------------------------------
(* Properties of the batch, checked under Spec *)

\* process_submissions has returned its result list
BatchReturned == pc \in {"save_results_to_csv", "done"}

\* the program has ended: normally, or with an uncaught exception
ProgramEnded == pc \in {"done", "raised"}

\* process_submissions is running or has ended
BatchStarted ==
    pc \in {"for_file_name", "export_to_step", "calculate_properties",
            "save_results_to_csv", "done", "raised"}

\* the positions of the .par submissions in the listing
ParIndices == {i \in 1..Len(listing) : IsPar(listing[i])}

\* the loop has finished with the submission at position i
Handled(i) == BatchStarted /\ (idx > i \/ BatchReturned)

\* some export of the source file f succeeded
ExportOk(f) == \E k \in 1..Len(export_log[f]) : export_log[f][k]

\* every attempt allowed for f was made and failed
ExportExhausted(f) ==
    /\ Len(export_log[f]) = retry_count
    /\ \A k \in 1..Len(export_log[f]) : ~export_log[f][k]

\* the calls of calculate_properties on the STEP file of f
ReadsOf(f) == {k \in 1..Len(read_log) : read_log[k].path = StepPathOf(f)}

ReadOk(f) == \E k \in ReadsOf(f) : read_log[k].ok

ReadFailed(f) == \E k \in ReadsOf(f) : ~read_log[k].ok

\* the positions in results of the rows of the submission f
RowsOf(f) == {k \in 1..Len(results) : results[k].StudentID = f.name}

\* the submissions of the listing whose export and read both succeeded
Extracted == {i \in ParIndices : ExportOk(listing[i]) /\ ReadOk(listing[i])}

C2_AsStated ==
    ProgramEnded =>
        \A i \in ParIndices : \A j \in ParIndices :
            (i < j /\ (ExportExhausted(listing[i]) \/ ReadFailed(listing[i]))) =>
                /\ Len(export_log[listing[j]]) >= 1
                /\ (ExportOk(listing[j]) /\ ReadOk(listing[j]))
                       => RowsOf(listing[j]) # {}

\* C3: for each submission whose extraction was run the export was called
\* at least once and at most retry_count times, no call follows a success,
\* a submission is given up only after retry_count failures, and a
\* successful export is followed by the read
C3_RetryBound ==
    \A i \in ParIndices :
        LET log == export_log[listing[i]]
        IN  /\ Len(log) <= retry_count
            /\ \A k \in 1..Len(log) : log[k] => k = Len(log)
            /\ Handled(i) => Len(log) >= 1
            /\ (Handled(i) /\ ~ExportOk(listing[i])) => Len(log) = retry_count
            /\ (ExportOk(listing[i]) /\ idx = i /\ BatchStarted)
                   => pc \in {"calculate_properties", "raised"}
            /\ (Handled(i) /\ ExportOk(listing[i])) => ReadsOf(listing[i]) # {}

\* an export that failed twice and then succeeded, three calls, and the
\* submission has its result; another submission exported in one call
C3_Witness ==
    \E i \in ParIndices : \E j \in ParIndices :
        /\ export_log[listing[i]] = <<FALSE, FALSE, TRUE>>
        /\ RowsOf(listing[i]) # {}
        /\ Handled(j)
        /\ export_log[listing[j]] = <<TRUE>>

\* C4 as stated: a submission whose read failed was attempted again while
\* attempts remained, so it is given up only after retry_count exports
C4_AsStated ==
    \A i \in ParIndices :
        (Handled(i) /\ ReadFailed(listing[i]) /\ ~ReadOk(listing[i]))
            => Len(export_log[listing[i]]) = retry_count

\* C4 amended: only the export is retried. The read is made at most once
\* per submission, after its one successful export; a failed read ends the
\* submission without a result and without another export
C4_ReadOnce ==
    \A i \in ParIndices :
        LET f == listing[i]
        IN  /\ Cardinality(ReadsOf(f)) <= 1
            /\ ReadsOf(f) # {} =>
                  /\ Cardinality({k \in 1..Len(export_log[f]) : export_log[f][k]}) = 1
                  /\ export_log[f][Len(export_log[f])]
            /\ ReadFailed(f) => (RowsOf(f) = {} /\ Handled(i))

\* a submission whose first export succeeded and whose read failed is given
\* up after that single attempt
C4_Witness ==
    \E i \in ParIndices :
        /\ Handled(i)
        /\ export_log[listing[i]] = <<TRUE>>
        /\ ReadFailed(listing[i])
        /\ RowsOf(listing[i]) = {}

\* C7 as stated: with null expected values process_submissions raises
\* nothing, and every submission whose export and read succeeded is
\* recorded with VolumeMark, SurfaceAreaMark and CGMark 0
C7_AsStated ==
    (BatchStarted /\ expected = NoProperties) =>
        /\ pc # "raised"
        /\ \A i \in Extracted :
              Handled(i) =>
                  \E k \in RowsOf(listing[i]) :
                      /\ results[k].VolumeMark = 0
                      /\ results[k].SurfaceAreaMark = 0
                      /\ results[k].CGMark.num = 0

\* the table mark of axis i of the recorded row r against the expected
\* centre of gravity
AxisTableMark(r, i) ==
    calculate_mark(Some(r.CenterOfGravity[i]), Some(Val(expected.cg)[i])).val

ListingPosition(id) ==
    CHOOSE i \in ParIndices : listing[i].name = id

\* C10: the StudentIDs of results follow the order of the listing, and the
\* CSV file holds the header and then one row per result in the order of
\* the result list
C10_DiscoveryOrder ==
    /\ \A k \in 1..Len(results) :
          \E i \in ParIndices : listing[i].name = results[k].StudentID
    /\ \A a \in 1..Len(results) : \A b \in 1..Len(results) :
          a < b => ListingPosition(results[a].StudentID)
                       < ListingPosition(results[b].StudentID)
    /\ csv_file # None =>
          /\ Len(Val(csv_file)) = Len(results) + 1
          /\ Val(csv_file)[1] = fieldnames
          /\ \A k \in 1..Len(results) :
                Val(csv_file)[k + 1][1] = results[k].StudentID

\* the listing S3, S1, S2 written as the rows S3, S1, S2
C10_Witness ==
    /\ pc = "done"
    /\ Len(listing) = 3
    /\ listing[1].name = "S3" /\ listing[2].name = "S1" /\ listing[3].name = "S2"
    /\ Len(Val(csv_file)) = 4
    /\ Val(csv_file)[2][1] = "S3"
    /\ Val(csv_file)[3][1] = "S1"
    /\ Val(csv_file)[4][1] = "S2"

\* the submissions the loop has finished with
HandledSet == {i \in ParIndices : Handled(i)}

\* C11 as stated: a progress signal is emitted after each submission,
\* failed or successful: once k submissions have been handled k signals
\* have been emitted, the k-th reading k/N, so a returned batch has emitted
\* N signals and the last reads N/N
C11_AsStated ==
    BatchStarted =>
        /\ Len(progress) = Cardinality(HandledSet)
        /\ \A k \in 1..Len(progress) : progress[k] = <<k, Len(ParFiles(listing))>>

\* C11 amended: a progress signal is emitted after each recorded
\* (successful) submission and none after a failed one: the k-th signal
\* reads k/N with N the number of .par files, there are as many signals as
\* results, and a returned batch ends on N/N exactly when no submission
\* failed
C11_ProgressOnSuccess ==
    BatchStarted =>
        /\ Len(progress) = Cardinality(HandledSet \cap Extracted)
        /\ Len(progress) = Len(results)
        /\ \A k \in 1..Len(progress) : progress[k] = <<k, Len(ParFiles(listing))>>
        /\ (BatchReturned /\ ParIndices # {}) =>
              ((Len(progress) > 0 /\ progress[Len(progress)][1] = progress[Len(progress)][2])
                   <=> ParIndices \subseteq Extracted)

\* a returned batch of three submissions, one of them failed: the signals
\* 1/3 and 2/3
C11_Witness ==
    /\ BatchReturned
    /\ Cardinality(ParIndices) = 3
    /\ Cardinality(Extracted) = 2
    /\ progress = <<<<1, 3>>, <<2, 3>>>>

\* extract_expected_values has returned
ExtractReturned == pc = "process_submissions" \/ BatchStarted

\* C12: the STEP file of a successful export is transient. It is in the
\* output directory while calculate_properties reads it; once a submission
\* is recorded its STEP file is gone, so it is gone before the next
\* export starts; and the STEP file of the reference solution is gone once
\* extract_expected_values has returned
C12_StepFileTransient ==
    /\ pc \in {"calculate_properties", "extract_read"} =>
          (step_file_path # None /\ Val(step_file_path) \in outdir)
    /\ \A i \in ParIndices :
          RowsOf(listing[i]) # {} =>
              /\ ReadOk(listing[i])
              /\ StepPathOf(listing[i]) \notin outdir
    /\ ExtractReturned => StepPathOf(solution_file_path) \notin outdir

\* the export of a second submission is about to start, the first one is
\* recorded, the reference was read, and the directory holds no STEP file
C12_Witness ==
    /\ pc = "export_to_step"
    /\ attempt = 0
    /\ idx = 2
    /\ RowsOf(listing[1]) # {}
    /\ ReadsOf(solution_file_path) # {}
    /\ \A f \in outdir : f.ext # "step"

\* C13: the read is skipped when the export fails. Every call of
\* calculate_properties is on the STEP path of a source file one of whose
\* exports succeeded, the path about to be read is the one returned by the
\* successful export of the current file, and a file whose exports all
\* failed is never read
C13_ReadOnlyAfterExport ==
    /\ \A k \in 1..Len(read_log) :
          \E f \in SourceFiles : read_log[k].path = StepPathOf(f) /\ ExportOk(f)
    /\ \A f \in SourceFiles : ~ExportOk(f) => ReadsOf(f) = {}
    /\ pc = "calculate_properties" =>
          (step_file_path = Some(StepPathOf(listing[idx])) /\ ExportOk(listing[idx]))
    /\ pc = "extract_read" =>
          (step_file_path = Some(StepPathOf(solution_file_path))
               /\ ExportOk(solution_file_path))

\* a submission given up after retry_count failed exports and never read,
\* beside a submission that was read
C13_Witness ==
    \E i \in HandledSet : \E j \in HandledSet :
        /\ ExportExhausted(listing[i])
        /\ ReadsOf(listing[i]) = {}
        /\ ReadsOf(listing[j]) # {}

\* the sum of the function f over the finite set S
RECURSIVE SumOver(_, _)
SumOver(S, f) ==
    IF S = {} THEN 0
    ELSE LET x == CHOOSE y \in S : TRUE
         IN  f[x] + SumOver(S \ {x}, f)

\* the calls of export_to_step made on the submission at each position
ExportCallsAt == [i \in ParIndices |-> Len(export_log[listing[i]])]

\* the calls of calculate_properties made on the submission at each position
ReadCallsAt == [i \in ParIndices |-> Cardinality(ReadsOf(listing[i]))]

\* C14: with non-null expected values process_submissions never raises, at
\* most 3 * N exports and N reads of submissions are made, and a batch that
\* has been started is eventually returned with the listing exhausted
C14_BatchTerminates ==
    /\ []((BatchStarted /\ expected # NoProperties) =>
             /\ pc # "raised"
             /\ SumOver(ParIndices, ExportCallsAt) <= retry_count * Cardinality(ParIndices)
             /\ SumOver(ParIndices, ReadCallsAt) <= Cardinality(ParIndices))
    /\ (pc = "process_submissions" /\ expected # NoProperties)
           ~> (BatchReturned /\ idx > Len(listing))

\* a returned batch of three submissions with non-null expected values:
\* one used all its exports, the others were read
C14_Witness ==
    /\ BatchReturned
    /\ expected # NoProperties
    /\ Cardinality(ParIndices) = 3
    /\ \E i \in ParIndices : ExportExhausted(listing[i])
    /\ SumOver(ParIndices, ReadCallsAt) = 2
    /\ SumOver(ParIndices, ExportCallsAt) >= 7

\* C15 as stated: clean_up_files is called once at the end of every call of
\* extract_expected_values, whether or not the reference export succeeded,
\* and once more at the end of process_submissions
C15_AsStated ==
    /\ pc = "process_submissions" => clean_up_calls = 1
    /\ BatchReturned => clean_up_calls = 2

\* C16 as stated: when process_submissions returns, no STEP file it
\* exported remains in the output directory, whatever the outcome of each
\* submission
C16_AsStated ==
    BatchReturned =>
        \A i \in ParIndices : StepPathOf(listing[i]) \notin outdir

----------------------------------------------------------------------------
(* Sign symmetry of calculate_mark, checked under SpecMark *)

\* C17: calculate_mark scores the absolute value of the relative error:
\* for non-null v and e with e # 0, calculate_mark(v, e) =
\* calculate_mark(-v, -e), and a negative expected value is bucketed by
\* |v - e| / |e| * 100, so it scores 5 only within 1 percent
C17_SignSymmetric ==
    (MarkCalled /\ MarkInputsDefined) =>
        LET v == Val(value)
            e == Val(expected_value)
        IN  /\ Val(mark) = calculate_mark(Some(-v), Some(-e))
            /\ e < 0 =>
                  /\ Val(mark).val =
                         TableMark(SignedLeq, AbsPercentageError(v, e))
                  /\ (Val(mark).val = 5) <=> (100 * Abs(v - e) <= Abs(e))

\* a negative expected value 50 percent off scores 2, as its mirror image
C17_Witness ==
    /\ MarkCalled
    /\ value = Some(-50)
    /\ expected_value = Some(-100)
    /\ Val(mark) = Returns(2)
    /\ calculate_mark(Some(50), Some(100)) = Returns(2)

----------------------------------------------------------------------------
(* The progress counter of process_submissions, checked under Spec *)

\* the step that gives up the current submission: the last export failed or
\* the read failed
FailedSubmissionStep ==
    /\ idx' = idx + 1
    /\ \/ pc = "export_to_step"
       \/ pc = "calculate_properties" /\ ~read_log'[Len(read_log')].ok

\* C18: at every iteration boundary submission_count = len(results) and it
\* does not exceed the number of .par files; it never decreases; and a
\* failed submission changes neither the counter nor the result list
C18_CounterMatchesResults ==
    /\ [](BatchStarted =>
             /\ submission_count = Len(results)
             /\ total_submissions = Len(ParFiles(listing))
             /\ submission_count <= total_submissions)
    /\ [][BatchStarted => submission_count' >= submission_count]_vars
    /\ [][(BatchStarted /\ FailedSubmissionStep)
              => UNCHANGED <<submission_count, results>>]_vars

\* a returned batch of three submissions of which one failed: counter 2,
\* two results
C18_Witness ==
    /\ BatchReturned
    /\ total_submissions = 3
    /\ submission_count = 2
    /\ Len(results) = 2
    /\ Cardinality(HandledSet \ Extracted) = 1

====
